---- MODULE Spec2Model ----
(***************************************************************************)
(* Model of the openjpeg binding module src/openjpeg/utils.py:             *)
(*                                                                         *)
(*   def get_openjpeg_version():                                           *)
(*       version = _openjpeg.get_version().decode('ascii').split('.')      *)
(*       return tuple([int(ii) for ii in version])                         *)
(*                                                                         *)
(*   def decode(arr, nr_bytes):                                            *)
(*       return _openjpeg.opj_decode(arr, nr_bytes)                        *)
(*                                                                         *)
(* Byte strings are sequences of byte values (0..255).  The outcome of a   *)
(* Python call is a record [kind, value, exc]: kind "return" with the      *)
(* returned sequence in value, or kind "raise" with the exception's name   *)
(* in exc.  The compiled extension _openjpeg is not part of the Python     *)
(* source; its two entry points are modelled as the environment.           *)
(***************************************************************************)
EXTENDS Integers, Sequences, FiniteSets, TLC

VARIABLES
    nativeVersion,  \* the bytes _openjpeg.get_version() returns in this process
    inp,            \* inp[t]: the (arr, nr_bytes) thread t passes to decode
    pc,             \* pc[t]: "idle", "in_native" (inside opj_decode), "native_done"
    nativeArgs,     \* nativeArgs[t]: what opj_decode received in t's current call
    nativeOut,      \* nativeOut[t]: how opj_decode ended in t's current call
    ctx,            \* ctx[t]: the native call's working buffer (samples written)
    ninv,           \* ninv[t]: native invocations made by t's current decode call
    ret,            \* ret[t]: outcome of t's last finished call, as its caller sees it
    lastop,         \* lastop[t]: "none", "decode" or "version": t's last finished call
    first,          \* first[t]: outcome of t's first finished decode call
    again,          \* again[t]: t has started a decode call after finishing one
    firstVersion,   \* outcome of the first get_openjpeg_version() call in the process
    vagain          \* get_openjpeg_version() has been called more than once

vars == <<nativeVersion, inp, pc, nativeArgs, nativeOut, ctx, ninv, ret, lastop,
          first, again, firstVersion, vagain>>

decodeVars == <<inp, pc, nativeArgs, nativeOut, ctx, ninv, first, again>>

\* Longest native version byte string enumerated.
MaxLen == 5
\* Longest input buffer enumerated for decode.
MaxBuf == 3

Threads == {"t1", "t2"}

\* Byte values: '-' 45, '.' 46, '0' 48, '1' 49, 'd' 100, and the non-ASCII 255.
VersionBytes == {45, 46, 48, 49, 100, 255}

RECURSIVE SeqsUpTo(_, _)
SeqsUpTo(S, n) ==
    IF n = 0 THEN {<<>>}
    ELSE LET shorter == SeqsUpTo(S, n - 1)
         IN  shorter \cup {Append(s, x) : s \in {q \in shorter : Len(q) = n - 1}, x \in S}

NoOutcome == [kind |-> "none", value |-> <<>>, exc |-> "none"]
Return(v) == [kind |-> "return", value |-> v, exc |-> "none"]
Raise(e) == [kind |-> "raise", value |-> <<>>, exc |-> e]

(***************************************************************************)
(* get_openjpeg_version, line 8: bytes.decode('ascii')                     *)
(***************************************************************************)
IsAscii(b) == \A i \in 1..Len(b) : b[i] < 128

\* The str of an all-ASCII byte string has the same code points.
bytes_decode_ascii(b) ==
    IF IsAscii(b) THEN Return(b) ELSE Raise("UnicodeDecodeError")

(***************************************************************************)
(* get_openjpeg_version, line 8: str.split('.')                            *)
(* Splits at every separator; empty fields are kept, so the result has     *)
(* one more field than the string has separators.                          *)
(***************************************************************************)
RECURSIVE SplitFrom(_, _, _, _)
SplitFrom(s, sep, i, cur) ==
    IF i > Len(s) THEN <<cur>>
    ELSE IF s[i] = sep THEN <<cur>> \o SplitFrom(s, sep, i + 1, <<>>)
    ELSE SplitFrom(s, sep, i + 1, Append(cur, s[i]))

\* Mutant: split('.', 1), which stops splitting after the first separator.
RECURSIVE SplitOnce(_, _, _, _)
SplitOnce(s, sep, i, cur) ==
    IF i > Len(s) THEN <<cur>>
    ELSE IF s[i] = sep THEN <<cur, SubSeq(s, i + 1, Len(s))>>
    ELSE SplitOnce(s, sep, i + 1, Append(cur, s[i]))

str_split_max1(s, sep) == SplitOnce(s, sep, 1, <<>>)

str_split(s, sep) == SplitFrom(s, sep, 1, <<>>)

(***************************************************************************)
(* get_openjpeg_version, line 9: int(ii)                                   *)
(* Over VersionBytes, int() accepts an optional sign followed by one or    *)
(* more decimal digits (leading zeros allowed) and raises ValueError for   *)
(* anything else.                                                          *)
(***************************************************************************)
IsDigit(c) == c >= 48 /\ c <= 57
IsSign(c) == c = 43 \/ c = 45

Digits(f) == IF f # <<>> /\ IsSign(f[1]) THEN Tail(f) ELSE f

IsIntLiteral(f) ==
    /\ Digits(f) # <<>>
    /\ \A i \in 1..Len(Digits(f)) : IsDigit(Digits(f)[i])

RECURSIVE DecimalValue(_)
DecimalValue(d) ==
    IF d = <<>> THEN 0
    ELSE 10 * DecimalValue(SubSeq(d, 1, Len(d) - 1)) + (d[Len(d)] - 48)

\* Mutant: int(ii[-1]), which converts the last digit only.
py_int_lastdigit(f) ==
    LET d == Digits(f)
    IN  IF f[1] = 45 THEN 0 - (d[Len(d)] - 48) ELSE d[Len(d)] - 48

py_int(f) ==
    IF f[1] = 45 THEN 0 - DecimalValue(Digits(f)) ELSE DecimalValue(Digits(f))

(***************************************************************************)
(* get_openjpeg_version, line 9: tuple([int(ii) for ii in version])        *)
(* The comprehension converts the fields left to right; the first field    *)
(* int() rejects raises ValueError and no tuple is built.                  *)
(***************************************************************************)
\* Mutant: [int(ii) for ii in version if ii.isdigit()], which skips the
\* fields that do not convert.
RECURSIVE int_list_skip(_)
int_list_skip(fields) ==
    IF fields = <<>> THEN Return(<<>>)
    ELSE LET rest == int_list_skip(Tail(fields))
         IN  IF IsIntLiteral(Head(fields))
             THEN Return(<<py_int(Head(fields))>> \o rest.value)
             ELSE rest

RECURSIVE IntListFrom(_)
IntListFrom(fields) ==
    IF fields = <<>> THEN Return(<<>>)
    ELSE IF ~IsIntLiteral(Head(fields)) THEN Raise("ValueError")
    ELSE LET rest == IntListFrom(Tail(fields))
         IN  IF rest.kind = "raise" THEN rest
             ELSE Return(<<py_int(Head(fields))>> \o rest.value)

int_list(fields) == IntListFrom(fields)

\* The whole function body applied to the native bytes b.
version_tuple(b) ==
    LET s == bytes_decode_ascii(b)
    IN  IF s.kind = "raise" THEN s ELSE int_list(str_split(s.value, 46))

(***************************************************************************)
(* The compiled extension.  get_version() hands back the library's version *)
(* bytes, the same for the life of the process.  opj_decode(arr, nr_bytes) *)
(* reads the first nr_bytes bytes of arr into a working buffer of its own  *)
(* and ends with a complete pixel buffer or with one of the decoder's      *)
(* errors; it keeps nothing from one call to the next.  The codestream is  *)
(* abstracted to three byte classes: the SOC marker, a data byte that      *)
(* decodes to one sample, and a corrupt byte.                              *)
(***************************************************************************)
CodeBytes == {"SOC", "DAT", "BAD"}

get_version == nativeVersion

\* [out |-> how the call ends, work |-> the samples written to the working buffer]
RECURSIVE OpjScan(_, _, _, _)
OpjScan(arr, n, pos, work) ==
    IF pos > n THEN [out |-> Return(work), work |-> work]
    ELSE IF pos > Len(arr)
        THEN [out |-> Raise("TruncatedStreamError"), work |-> work]
    ELSE IF pos = 1
        THEN IF arr[1] = "SOC" THEN OpjScan(arr, n, 2, work)
             ELSE [out |-> Raise("InvalidMarkerError"), work |-> work]
    ELSE IF arr[pos] = "BAD"
        THEN [out |-> Raise("CorruptCodeblockError"), work |-> work]
    ELSE IF arr[pos] = "SOC"
        THEN [out |-> Raise("InvalidMarkerError"), work |-> work]
    ELSE OpjScan(arr, n, pos + 1, Append(work, pos))

opj_decode_run(arr, n) ==
    IF n = 0 THEN [out |-> Raise("TruncatedStreamError"), work |-> <<>>]
    ELSE OpjScan(arr, n, 1, <<>>)

Buffers == SeqsUpTo(CodeBytes, MaxBuf)

\* Byte counts that agree with the buffer, fall short of it by one or exceed
\* it by one.
Inputs ==
    {i \in [arr : Buffers, nr_bytes : 0..(MaxBuf + 1)] :
        /\ i.nr_bytes >= Len(i.arr) - 1
        /\ i.nr_bytes <= Len(i.arr) + 1}

\* What the second thread decodes: a stream that decodes and one that fails.
PeerInputs ==
    {[arr |-> <<"SOC", "DAT">>, nr_bytes |-> 2], [arr |-> <<"SOC", "BAD">>, nr_bytes |-> 2]}

(***************************************************************************)
(* decode(arr, nr_bytes), lines 11-12.                                     *)
(***************************************************************************)
\* Mutant: opj_decode(arr[:nr_bytes], nr_bytes), which trims the buffer first.
decode_args_trimmed(a) ==
    [arr |-> SubSeq(a.arr, 1, IF a.nr_bytes < Len(a.arr) THEN a.nr_bytes ELSE Len(a.arr)),
     nr_bytes |-> a.nr_bytes]

\* The arguments of the native call: arr and nr_bytes as received, in that order.
decode_args(a) == [arr |-> a.arr, nr_bytes |-> a.nr_bytes]

\* Mutant: the arguments go through a module-level slot that a call in
\* another thread may have overwritten.
decode_shared(t) ==
    /\ pc[t] = "idle"
    /\ pc' = [pc EXCEPT ![t] = "in_native"]
    /\ nativeArgs' = [nativeArgs EXCEPT ![t] =
           IF \E u \in Threads \ {t} : pc[u] = "in_native"
           THEN nativeArgs[CHOOSE u \in Threads \ {t} : pc[u] = "in_native"]
           ELSE decode_args(inp[t])]
    /\ nativeOut' = [nativeOut EXCEPT ![t] = NoOutcome]
    /\ ctx' = [ctx EXCEPT ![t] = <<>>]
    /\ ninv' = [ninv EXCEPT ![t] = 0]
    /\ again' = [again EXCEPT ![t] = first[t] # NoOutcome]
    /\ UNCHANGED <<nativeVersion, inp, ret, lastop, first, firstVersion, vagain>>

\* The call: decode's body evaluates its arguments and enters opj_decode.
decode(t) ==
    /\ pc[t] = "idle"
    /\ pc' = [pc EXCEPT ![t] = "in_native"]
    /\ nativeArgs' = [nativeArgs EXCEPT ![t] = decode_args(inp[t])]
    /\ nativeOut' = [nativeOut EXCEPT ![t] = NoOutcome]
    /\ ctx' = [ctx EXCEPT ![t] = <<>>]
    /\ ninv' = [ninv EXCEPT ![t] = 0]
    /\ again' = [again EXCEPT ![t] = first[t] # NoOutcome]
    /\ UNCHANGED <<nativeVersion, inp, ret, lastop, first, firstVersion, vagain>>

\* The native decoder runs on the arguments it was given.
opj_decode(t) ==
    /\ pc[t] = "in_native"
    /\ LET r == opj_decode_run(nativeArgs[t].arr, nativeArgs[t].nr_bytes)
       IN  /\ nativeOut' = [nativeOut EXCEPT ![t] = r.out]
           /\ ctx' = [ctx EXCEPT ![t] = r.work]
    /\ ninv' = [ninv EXCEPT ![t] = ninv[t] + 1]
    /\ pc' = [pc EXCEPT ![t] = "native_done"]
    /\ UNCHANGED <<nativeVersion, inp, nativeArgs, ret, lastop, first, again,
                   firstVersion, vagain>>

\* Mutant: except Exception: raise RuntimeError(...), which replaces the error.
decode_result_wrapped(t) ==
    IF nativeOut[t].kind = "raise" THEN Raise("RuntimeError") ELSE nativeOut[t]

\* Mutant: except Exception: return the buffer decoded so far.
decode_result_partial(t) ==
    IF nativeOut[t].kind = "raise" THEN Return(ctx[t]) ELSE nativeOut[t]

\* Mutant: the samples are collected in a module-level list that is never
\* cleared, so a later call returns the earlier call's samples too.
decode_result_accumulating(t) ==
    IF nativeOut[t].kind = "return" /\ first[t].kind = "return"
    THEN Return(first[t].value \o nativeOut[t].value)
    ELSE nativeOut[t]

\* What decode hands its caller, given how the native call ended: the value
\* is returned as it is, and an exception propagates (there is no try).
decode_result(t) == nativeOut[t]

Finish(t, r) ==
    /\ pc' = [pc EXCEPT ![t] = "idle"]
    /\ ret' = [ret EXCEPT ![t] = r]
    /\ lastop' = [lastop EXCEPT ![t] = "decode"]
    /\ first' = [first EXCEPT ![t] = IF first[t] = NoOutcome THEN r ELSE first[t]]
    /\ UNCHANGED <<nativeVersion, inp, nativeArgs, nativeOut, ctx, ninv, again,
                   firstVersion, vagain>>

\* The return: opj_decode has ended and decode ends the same way.
decode_return(t) ==
    /\ pc[t] = "native_done"
    /\ Finish(t, decode_result(t))

(***************************************************************************)
(* get_openjpeg_version(), lines 6-9, called by thread t.                  *)
(***************************************************************************)
VersionCall(t, r) ==
    /\ pc[t] = "idle"
    /\ ret' = [ret EXCEPT ![t] = r]
    /\ lastop' = [lastop EXCEPT ![t] = "version"]
    /\ firstVersion' = IF firstVersion = NoOutcome THEN r ELSE firstVersion
    /\ vagain' = (vagain \/ firstVersion # NoOutcome)
    /\ UNCHANGED <<nativeVersion, inp, pc, nativeArgs, nativeOut, ctx, ninv,
                   first, again>>

\* Mutant: the integers are appended to a module-level list that is never
\* cleared, so a later call returns the earlier calls' elements too.
get_openjpeg_version_accumulating(t) ==
    LET r == version_tuple(get_version)
    IN  VersionCall(t, IF r.kind = "return" /\ firstVersion # NoOutcome
                       THEN Return(firstVersion.value \o r.value) ELSE r)

get_openjpeg_version(t) == VersionCall(t, version_tuple(get_version))

(***************************************************************************)
(* Specifications.                                                         *)
(***************************************************************************)
\* "1.0.1" and "1-d"
VersionSamples == {<<49, 46, 48, 46, 49>>, <<49, 45, 100>>}

InitCommon ==
    /\ pc = [t \in Threads |-> "idle"]
    /\ nativeArgs = [t \in Threads |-> [arr |-> <<>>, nr_bytes |-> 0]]
    /\ nativeOut = [t \in Threads |-> NoOutcome]
    /\ ctx = [t \in Threads |-> <<>>]
    /\ ninv = [t \in Threads |-> 0]
    /\ ret = [t \in Threads |-> NoOutcome]
    /\ lastop = [t \in Threads |-> "none"]
    /\ first = [t \in Threads |-> NoOutcome]
    /\ again = [t \in Threads |-> FALSE]
    /\ firstVersion = NoOutcome
    /\ vagain = FALSE

\* Threads that call decode, each on an input of its own, and
\* get_openjpeg_version, in any interleaving.
Init ==
    /\ nativeVersion \in VersionSamples
    /\ inp \in {f \in [Threads -> Inputs] : f["t2"] \in PeerInputs}
    /\ InitCommon

Next ==
    \E t \in Threads :
        \/ decode(t)
        \/ opj_decode(t)
        \/ decode_return(t)
        \/ get_openjpeg_version(t)

Spec == Init /\ [][Next]_vars

\* get_openjpeg_version applied to every native byte string up to MaxLen.
InitVersion ==
    /\ nativeVersion \in SeqsUpTo(VersionBytes, MaxLen)
    /\ inp = [t \in Threads |-> [arr |-> <<>>, nr_bytes |-> 0]]
    /\ InitCommon

NextVersion == \E t \in Threads : firstVersion = NoOutcome /\ get_openjpeg_version(t)

SpecVersion == InitVersion /\ [][NextVersion]_vars

(***************************************************************************)
(* Properties of get_openjpeg_version, checked under SpecVersion.          *)
(***************************************************************************)
VersionCalled(t) == lastop[t] = "version"

\* A byte string of exactly three '.'-separated fields, each a non-empty run
\* of decimal digits.
ThreeDigitFields(b) ==
    /\ Cardinality({i \in 1..Len(b) : b[i] = 46}) = 2
    /\ \A i \in 1..Len(b) : b[i] = 46 \/ IsDigit(b[i])
    /\ b[1] # 46
    /\ b[Len(b)] # 46
    /\ \A i \in 1..(Len(b) - 1) : ~(b[i] = 46 /\ b[i + 1] = 46)

FieldBounds(b) == {0, Len(b) + 1} \cup {i \in 1..Len(b) : b[i] = 46}

NthBound(b, k) ==
    CHOOSE p \in FieldBounds(b) : Cardinality({q \in FieldBounds(b) : q < p}) = k - 1

FieldOf(b, k) == SubSeq(b, NthBound(b, k) + 1, NthBound(b, k + 1) - 1)

RECURSIVE Pow10(_)
Pow10(n) == IF n = 0 THEN 1 ELSE 10 * Pow10(n - 1)

RECURSIVE PlaceSum(_, _)
PlaceSum(d, i) ==
    IF i > Len(d) THEN 0 ELSE (d[i] - 48) * Pow10(Len(d) - i) + PlaceSum(d, i + 1)

\* The integer a field denotes: its digits weighted by place, negated after '-'.
FieldValue(f) ==
    IF f[1] = 45 THEN 0 - PlaceSum(f, 2)
    ELSE IF f[1] = 43 THEN PlaceSum(f, 2)
    ELSE PlaceSum(f, 1)

\* C9: the tuple get_openjpeg_version() returns has one integer per
\* '.'-separated field of the native version string (number of dots + 1, not
\* fixed at three), in the same order, each the integer value of its field.
C9_TupleFollowsFields ==
    \A t \in Threads :
        (VersionCalled(t) /\ ret[t].kind = "return") =>
            /\ Len(ret[t].value) = Cardinality({i \in 1..Len(nativeVersion) :
                                                  nativeVersion[i] = 46}) + 1
            /\ \A k \in 1..Len(ret[t].value) :
                   ret[t].value[k] = FieldValue(FieldOf(nativeVersion, k))

\* "10.01" gives the two-element tuple (10, 1).
C9_Witness ==
    \E t \in Threads :
        /\ VersionCalled(t)
        /\ nativeVersion = <<49, 48, 46, 48, 49>>
        /\ ret[t] = Return(<<10, 1>>)

\* b holds a non-ASCII byte.
HasNonAscii(b) == \E i \in 1..Len(b) : b[i] >= 128

\* Some '.'-separated field of b is empty.
HasEmptyField(b) ==
    \/ b = <<>>
    \/ b[1] = 46
    \/ b[Len(b)] = 46
    \/ \E i \in 1..(Len(b) - 1) : b[i] = 46 /\ b[i + 1] = 46

AtFieldStart(b, i) == i = 1 \/ b[i - 1] = 46
AtFieldEnd(b, i) == i = Len(b) \/ b[i + 1] = 46

\* Some field of b holds a character an integer literal cannot have there: a
\* letter, a sign after the field's first character, or a sign with no digits.
HasBadField(b) ==
    \E i \in 1..Len(b) :
        /\ b[i] # 46
        /\ ~IsDigit(b[i])
        /\ \/ ~IsSign(b[i])
           \/ ~AtFieldStart(b, i)
           \/ AtFieldEnd(b, i)

Malformed(b) == HasNonAscii(b) \/ HasEmptyField(b) \/ HasBadField(b)

\* C10: when the native version bytes hold a non-ASCII byte, or a field that is
\* not an integer literal, get_openjpeg_version() ends in an error and returns
\* no tuple, truncated or partly converted.
C10_MalformedRaises ==
    \A t \in Threads :
        (VersionCalled(t) /\ Malformed(nativeVersion)) =>
            /\ ret[t].kind = "raise"
            /\ ret[t].value = <<>>
            /\ ret[t].exc = IF HasNonAscii(nativeVersion)
                            THEN "UnicodeDecodeError" ELSE "ValueError"

\* "1.0-d": the first field converts, the second does not.
C10_Witness ==
    \E t \in Threads :
        /\ VersionCalled(t)
        /\ nativeVersion = <<49, 46, 48, 45, 100>>
        /\ ret[t] = Raise("ValueError")

(***************************************************************************)
(* Properties of decode and of the two calls together, checked under Spec. *)
(***************************************************************************)
DecodeReturned(t) == pc[t] = "idle" /\ lastop[t] = "decode"

\* C2 as stated: opj_decode is never entered with a buffer whose length
\* differs from the byte count passed with it.
C2_NativeSeesConsistentPair ==
    \A t \in Threads :
        pc[t] \in {"in_native", "native_done"} =>
            Len(nativeArgs[t].arr) = nativeArgs[t].nr_bytes

\* C3: a decode call invokes opj_decode exactly once, with the arr and the
\* nr_bytes it was given, and ends with exactly the value opj_decode ended with.
C3_PassThrough ==
    \A t \in Threads :
        /\ pc[t] = "in_native" => (ninv[t] = 0 /\ nativeArgs[t] = inp[t])
        /\ pc[t] = "native_done" => (ninv[t] = 1 /\ nativeArgs[t] = inp[t])
        /\ DecodeReturned(t) =>
               (ninv[t] = 1 /\ nativeArgs[t] = inp[t] /\ ret[t] = nativeOut[t])

\* A call whose byte count falls short of the buffer has returned a sample.
C3_Witness ==
    \E t \in Threads :
        /\ DecodeReturned(t)
        /\ inp[t] = [arr |-> <<"SOC", "DAT", "BAD">>, nr_bytes |-> 2]
        /\ ret[t] = Return(<<2>>)

\* C4: an error raised by opj_decode reaches decode's caller as the same error;
\* it is not replaced and not turned into a returned value.
C4_ErrorsPropagate ==
    \A t \in Threads :
        (DecodeReturned(t) /\ nativeOut[t].kind = "raise") =>
            (ret[t].kind = "raise" /\ ret[t].exc = nativeOut[t].exc)

C4_Witness ==
    \E t \in Threads :
        /\ DecodeReturned(t)
        /\ nativeOut[t] = Raise("CorruptCodeblockError")
        /\ ret[t] = Raise("CorruptCodeblockError")

\* A pixel buffer is complete when it holds one sample for every data byte of
\* the nr_bytes the call was asked to decode.
Complete(v, a) == Len(v) = a.nr_bytes - 1

\* C5: a decode call ends in one of two ways: it returns a complete pixel
\* buffer, or it raises; a call whose decoder failed returns no buffer.
C5_CompleteOrError ==
    \A t \in Threads :
        DecodeReturned(t) =>
            \/ /\ ret[t].kind = "return"
               /\ nativeOut[t].kind = "return"
               /\ Complete(ret[t].value, inp[t])
            \/ /\ ret[t].kind = "raise"
               /\ ret[t].value = <<>>

\* The decoder failed with samples already in its working buffer.
C5_Witness ==
    \E t \in Threads :
        /\ DecodeReturned(t)
        /\ nativeOut[t].kind = "raise"
        /\ ctx[t] # <<>>
        /\ ret[t].kind = "raise"

\* C6: every decode call on an input ends as the first call on that input
\* ended, in whichever thread and whatever calls ran in between.
C6_SameInputSameOutput ==
    \A t, u \in Threads :
        (first[t] # NoOutcome /\ DecodeReturned(u) /\ inp[u] = inp[t]) =>
            ret[u] = first[t]

\* A second call has returned after another thread's decode of a different
\* input and a version call.
C6_Witness ==
    \E t, u \in Threads :
        /\ t # u
        /\ again[t]
        /\ DecodeReturned(t)
        /\ ret[t].kind = "return"
        /\ first[u] # NoOutcome
        /\ first[u] # first[t]
        /\ firstVersion # NoOutcome

C7_Stable == \A t \in Threads : VersionCalled(t) => ret[t] = firstVersion

C7_Pure ==
    [][(\E t \in Threads : get_openjpeg_version(t)) =>
           UNCHANGED <<nativeVersion, decodeVars>>]_vars

\* C7: get_openjpeg_version() changes nothing the native library or a decode
\* call holds, and every call returns what the first call returned, whatever
\* decode calls ran in between.
C7_PureAndStable == []C7_Stable /\ C7_Pure

\* A repeated version call has returned, with a decode that returned and a
\* decode that failed behind it.
C7_Witness ==
    \E t, u, w \in Threads :
        /\ vagain
        /\ VersionCalled(t)
        /\ ret[t].kind = "return"
        /\ first[u].kind = "return"
        /\ first[w].kind = "raise"

\* What a decode call on input a gives when nothing else runs.
Alone(a) == opj_decode_run(a.arr, a.nr_bytes).out

\* C8: in every interleaving of the threads' decode calls, each call ends as
\* it would have ended had it run alone.
C8_IndependentCalls ==
    \A t \in Threads :
        /\ pc[t] = "native_done" => nativeOut[t] = Alone(inp[t])
        /\ DecodeReturned(t) => ret[t] = Alone(inp[t])

\* One thread's call has returned while the other's, on another input, is
\* still inside decode.
C8_Witness ==
    \E t, u \in Threads :
        /\ t # u
        /\ DecodeReturned(t)
        /\ pc[u] = "native_done"
        /\ Alone(inp[t]) # Alone(inp[u])

====
